---- MODULE Spec2Model ----
(***************************************************************************)
(* A model of functorch's TensorWrapper (functorch/csrc/TensorWrapper.cpp): *)
(* level-tagged wrapper tensors, their shared life handles, the wrapper    *)
(* construction entry points, shallow_copy_and_detach, the dead-wrapper    *)
(* boxed fallback and the copy_ kernel registered for the wrapper key.     *)
(*                                                                         *)
(* Tensors live in a heap (a sequence; the index is the identity of the    *)
(* TensorImpl).  Life handles (std::shared_ptr<bool>) live in a second     *)
(* heap.  The dynamic layer stack maps each active level to its handle.    *)
(***************************************************************************)
EXTENDS Integers, Sequences, FiniteSets, TLC

\* ------------------------------------------------------------ bounds
MaxTensors == 4
MaxHandles == 3
MaxDepth == 3
MaxArgs == 2

\* ------------------------------------------------------------ constants
\* nullptr / c10::nullopt
None == 0
\* an undefined at::Tensor (no TensorImpl behind it)
Undefined == 0
\* an operand of the boxed stack that is not a Tensor
NonTensor == 0

kGradWrapperKey == "FuncTorchGradWrapper"
kKeysToPropagateToWrapper == {"CPU", "CUDA", "XLA"}
AutogradKeys == {"AutogradCPU", "AutogradCUDA", "AutogradXLA"}

VARIABLES
  tensors,     \* heap of TensorImpls: plain tensors and TensorWrappers
  madeBy,      \* for each tensor of the heap, the entry point that built it
  copyOf,      \* for each tensor, the wrapper it is a shallow copy of (or None)
  handles,     \* heap of life handles (shared_ptr<bool>)
  layerStack,  \* the dynamic layer stack: layerStack[level] is that level's handle
  pc,          \* "idle", or "dispatch" while a boxed operator call is in flight
  stack,       \* the operand list of the call in flight
  entry,       \* the operand list the call in flight was first made with
  calls,       \* how many times the call in flight was re-dispatched by the fallback
  outcome      \* the last call made: its name, arguments and result

vars == <<tensors, madeBy, copyOf, handles, layerStack, pc, stack, entry, calls, outcome>>

Ids(ts) == 1..Len(ts)

\* ------------------------------------------------------------ accessors
KeySetOf(ts, t) == IF t = Undefined THEN {} ELSE ts[t].key_set

maybeGetTensorWrapper(ts, t) ==
  IF kGradWrapperKey \notin KeySetOf(ts, t) THEN None ELSE t

\* mutant: tests the handle pointer instead of the flag it points to
is_alive_pointer_test(ts, w) == ts[w].is_alive_ # None

is_alive(ts, w) == handles[ts[w].is_alive_]

value(ts, w) == ts[w].value_

level(ts, w) == IF is_alive(ts, w) THEN ts[w].level_ ELSE None

\* optional<int64_t> < int64_t : an empty optional is less than every value
OptLess(opt, v) == IF opt = None THEN TRUE ELSE opt < v

getLifeHandleForLevel(lvl) ==
  IF lvl \in 1..Len(layerStack) THEN layerStack[lvl] ELSE None

getKeysToPropagateToWrapper(ts, t, to_propagate) == KeySetOf(ts, t) \cap to_propagate

\* ------------------------------------------------------------ metadata
RECURSIVE Prod(_)
Prod(s) == IF s = <<>> THEN 1 ELSE Head(s) * Prod(Tail(s))

RECURSIVE ContigFrom(_, _, _, _)
ContigFrom(sizes, strides, d, z) ==
  IF d = 0 THEN TRUE
  ELSE IF sizes[d] = 1 THEN ContigFrom(sizes, strides, d - 1, z)
  ELSE strides[d] = z /\ ContigFrom(sizes, strides, d - 1, z * sizes[d])

compute_contiguous(sizes, strides) ==
  IF Prod(sizes) = 0 THEN TRUE ELSE ContigFrom(sizes, strides, Len(sizes), 1)

\* ------------------------------------------------------------ plain tensors
PlainTensor(sizes, strides, storage_offset, numel, data, key_set) ==
  [impl |-> "TensorImpl", key_set |-> key_set, sizes |-> sizes, strides |-> strides,
   storage_offset |-> storage_offset, numel |-> numel,
   is_contiguous |-> compute_contiguous(sizes, strides),
   data |-> data, value_ |-> None, level_ |-> None, is_alive_ |-> None]

\* the two plain tensors the program starts with: a contiguous [2,4] tensor and
\* a strided [4] view at storage offset 1 (it broadcasts into the first, the
\* first does not broadcast into it)
PlainInputs ==
  << PlainTensor(<<2, 4>>, <<4, 1>>, 0, 8, 1, {"CPU", "AutogradCPU"}),
     PlainTensor(<<4>>, <<2>>, 1, 4, 2, {"CUDA", "SparseCUDA"}) >>

\* mutant: the copy loop stops one dimension early
refreshMetadata_short_loop(v) ==
  LET dim == Len(v.sizes)
      sz == [i \in 1..dim |-> IF i < dim THEN v.sizes[i] ELSE 0]
      st == [i \in 1..dim |-> IF i < dim THEN v.strides[i] ELSE 0]
  IN [sizes |-> sz, strides |-> st, storage_offset |-> v.storage_offset,
      numel |-> Prod(sz), is_contiguous |-> compute_contiguous(sz, st)]

refreshMetadata(v) ==
  LET dim == Len(v.sizes)
      sz == [i \in 1..dim |-> v.sizes[i]]
      st == [i \in 1..dim |-> v.strides[i]]
  IN [sizes |-> sz, strides |-> st, storage_offset |-> v.storage_offset,
      numel |-> Prod(sz), is_contiguous |-> compute_contiguous(sz, st)]

\* ------------------------------------------------------------ construction
Failed == [ok |-> FALSE]

\* mutant: the constructor does not assert use_value_sizes_strides
TensorWrapper_flag_unchecked(ts, key_set, val, lvl, alive, use_value_sizes_strides) ==
  IF val = Undefined THEN Failed
  ELSE LET m == refreshMetadata(ts[val])
       IN [ok |-> TRUE,
           t |-> [impl |-> "TensorWrapper", key_set |-> key_set, sizes |-> m.sizes,
                  strides |-> m.strides, storage_offset |-> m.storage_offset,
                  numel |-> m.numel, is_contiguous |-> m.is_contiguous,
                  data |-> None, value_ |-> val, level_ |-> lvl, is_alive_ |-> alive]]

TensorWrapper(ts, key_set, val, lvl, alive, use_value_sizes_strides) ==
  IF val = Undefined THEN Failed
  ELSE IF ~use_value_sizes_strides THEN Failed
  ELSE LET m == refreshMetadata(ts[val])
       IN [ok |-> TRUE,
           t |-> [impl |-> "TensorWrapper", key_set |-> key_set, sizes |-> m.sizes,
                  strides |-> m.strides, storage_offset |-> m.storage_offset,
                  numel |-> m.numel, is_contiguous |-> m.is_contiguous,
                  data |-> None, value_ |-> val, level_ |-> lvl, is_alive_ |-> alive]]

\* mutant: the wrapper key is not added to the propagated keys
WrapperKeySet_no_wrapper_key(ts, t) ==
  getKeysToPropagateToWrapper(ts, t, kKeysToPropagateToWrapper \cup AutogradKeys)

\* mutant: the autograd keys are added to the result instead of to the mask
WrapperKeySet_union_autograd(ts, t) ==
  getKeysToPropagateToWrapper(ts, t, kKeysToPropagateToWrapper)
    \cup AutogradKeys \cup {kGradWrapperKey}

WrapperKeySet(ts, t) ==
  LET keys_to_propagate == kKeysToPropagateToWrapper \cup AutogradKeys
  IN getKeysToPropagateToWrapper(ts, t, keys_to_propagate) \cup {kGradWrapperKey}

Outcome(op, status, self, other, lvl, flag, result, warned) ==
  [op |-> op, status |-> status, self |-> self, other |-> other, level |-> lvl,
   flag |-> flag, result |-> result, warned |-> warned]

\* mutant: the handle made for should_be_alive = false starts true
makeTensorWrapperPtr_fresh_true(ts, hs, t, lvl, should_be_alive) ==
  LET key_set == WrapperKeySet(ts, t)
      handle == IF should_be_alive THEN getLifeHandleForLevel(lvl) ELSE Len(hs) + 1
      hs2 == IF should_be_alive THEN hs ELSE Append(hs, TRUE)
      made == TensorWrapper(ts, key_set, t, lvl, handle, TRUE)
  IN IF handle = None \/ ~made.ok
     THEN [ok |-> FALSE, ts |-> ts, hs |-> hs, result |-> None]
     ELSE [ok |-> TRUE, ts |-> Append(ts, made.t), hs |-> hs2, result |-> Len(ts) + 1]

\* mutant: should_be_alive is ignored, the level's handle is always taken
makeTensorWrapperPtr_ignores_flag(ts, hs, t, lvl, should_be_alive) ==
  LET key_set == WrapperKeySet(ts, t)
      handle == getLifeHandleForLevel(lvl)
      made == TensorWrapper(ts, key_set, t, lvl, handle, TRUE)
  IN IF handle = None \/ ~made.ok
     THEN [ok |-> FALSE, ts |-> ts, hs |-> hs, result |-> None]
     ELSE [ok |-> TRUE, ts |-> Append(ts, made.t), hs |-> hs, result |-> Len(ts) + 1]

\* The effect of makeTensorWrapperPtr(t, lvl, should_be_alive) on the two heaps.
makeTensorWrapperPtr(ts, hs, t, lvl, should_be_alive) ==
  LET key_set == WrapperKeySet(ts, t)
      handle == IF should_be_alive THEN getLifeHandleForLevel(lvl) ELSE Len(hs) + 1
      hs2 == IF should_be_alive THEN hs ELSE Append(hs, FALSE)
      made == TensorWrapper(ts, key_set, t, lvl, handle, TRUE)
  IN IF handle = None \/ ~made.ok
     THEN [ok |-> FALSE, ts |-> ts, hs |-> hs, result |-> None]
     ELSE [ok |-> TRUE, ts |-> Append(ts, made.t), hs |-> hs2, result |-> Len(ts) + 1]

\* mutant: the handle is looked up by level number among the wrappers built
\* so far, whether or not their scope has exited
makeTensorWrapper_handle_by_level(ts, hs, t, lvl) ==
  LET wrapped == maybeGetTensorWrapper(ts, t)
      key_set == WrapperKeySet(ts, t)
      same == {p \in Ids(ts) : ts[p].impl = "TensorWrapper" /\ ts[p].level_ = lvl}
      life_handle == IF same # {} THEN ts[CHOOSE p \in same : TRUE].is_alive_
                     ELSE getLifeHandleForLevel(lvl)
      made == TensorWrapper(ts, key_set, t, lvl, life_handle, TRUE)
      fail == [ok |-> FALSE, ts |-> ts, hs |-> hs, result |-> None]
  IN IF wrapped # None /\ ~OptLess(level(ts, wrapped), lvl) THEN fail
     ELSE IF life_handle = None \/ ~made.ok THEN fail
     ELSE IF kGradWrapperKey \notin made.t.key_set THEN fail
     ELSE [ok |-> TRUE, ts |-> Append(ts, made.t), hs |-> hs, result |-> Len(ts) + 1]

\* The effect of makeTensorWrapper(t, lvl).
makeTensorWrapper(ts, hs, t, lvl) ==
  LET wrapped == maybeGetTensorWrapper(ts, t)
      key_set == WrapperKeySet(ts, t)
      life_handle == getLifeHandleForLevel(lvl)
      made == TensorWrapper(ts, key_set, t, lvl, life_handle, TRUE)
      fail == [ok |-> FALSE, ts |-> ts, hs |-> hs, result |-> None]
  IN IF wrapped # None /\ ~OptLess(level(ts, wrapped), lvl) THEN fail
     ELSE IF life_handle = None \/ ~made.ok THEN fail
     ELSE IF kGradWrapperKey \notin made.t.key_set THEN fail
     ELSE [ok |-> TRUE, ts |-> Append(ts, made.t), hs |-> hs, result |-> Len(ts) + 1]

\* mutant: the copy is always attached to the live handle of its level
shallow_copy_and_detach_always_alive(ts, hs, w) ==
  makeTensorWrapperPtr(ts, hs, value(ts, w), ts[w].level_, TRUE)

\* mutant: the copy always gets a fresh dead handle
shallow_copy_and_detach_born_dead(ts, hs, w) ==
  makeTensorWrapperPtr(ts, hs, value(ts, w), ts[w].level_, FALSE)

\* The effect of w->shallow_copy_and_detach(version_counter, allow_change).
shallow_copy_and_detach(ts, hs, w) ==
  makeTensorWrapperPtr(ts, hs, value(ts, w), ts[w].level_, is_alive(ts, w))

\* ------------------------------------------------------------ dumpTensor
\* operator<< of IntArrayRef: "[4]", "[2, 4]", "[]"
RECURSIVE JoinSizes(_)
JoinSizes(sizes) ==
  IF sizes = <<>> THEN ""
  ELSE IF Len(sizes) = 1 THEN ToString(sizes[1])
  ELSE ToString(sizes[1]) \o ", " \o JoinSizes(Tail(sizes))

ArrayRefToString(sizes) == "[" \o JoinSizes(sizes) \o "]"

maybeGetBatchedImpl(ts, t) ==
  IF ts[t].impl = "BatchedTensorImpl" THEN t ELSE None

\* mutant: the "lvl=" branch is taken on level_, which a dead wrapper keeps
RECURSIVE dumpTensor_prints_level_(_, _)
dumpTensor_prints_level_(ts, tensor) ==
  LET wrapped == maybeGetTensorWrapper(ts, tensor)
  IN IF wrapped = None
     THEN "Tensor" \o ArrayRefToString(ts[tensor].sizes)
     ELSE "Wrapper[" \o "lvl=" \o ToString(ts[wrapped].level_) \o ", "
            \o dumpTensor_prints_level_(ts, value(ts, wrapped)) \o "]"

\* the text dumpTensor(ss, tensor) appends to ss
RECURSIVE dumpTensor(_, _)
dumpTensor(ts, tensor) ==
  LET wrapped == maybeGetTensorWrapper(ts, tensor)
      batched == maybeGetBatchedImpl(ts, tensor)
  IN IF wrapped = None
     THEN IF batched # None
          THEN "Batched[lvl=" \o ToString(ts[batched].level_) \o " dim="
                 \o ToString(ts[batched].bdim) \o ", "
                 \o dumpTensor(ts, value(ts, batched)) \o "]"
          ELSE "Tensor" \o ArrayRefToString(ts[tensor].sizes)
     ELSE "Wrapper["
            \o (IF level(ts, wrapped) # None
                THEN "lvl=" \o ToString(level(ts, wrapped)) \o ", "
                ELSE "dead, ")
            \o dumpTensor(ts, value(ts, wrapped)) \o "]"

\* ------------------------------------------------------------ unsupported
\* mutant: set_size writes the size instead of failing
set_size_writes(ts, w, dim, new_size) ==
  [ok |-> TRUE, ts |-> [ts EXCEPT ![w].sizes[dim + 1] = new_size]]

\* TORCH_INTERNAL_ASSERT(false, ...): the call fails and nothing is written
set_size(ts, w, dim, new_size) == [ok |-> FALSE, ts |-> ts]

set_stride(ts, w, dim, new_stride) == [ok |-> FALSE, ts |-> ts]

set_storage_offset(ts, w, storage_offset) == [ok |-> FALSE, ts |-> ts]

shallow_copy_from(ts, w, impl) == [ok |-> FALSE, ts |-> ts]

\* ------------------------------------------------------------ copy_
\* src's sizes broadcast to self's sizes (right-aligned, each equal or 1)
Broadcastable(src_sizes, self_sizes) ==
  /\ Len(src_sizes) <= Len(self_sizes)
  /\ \A i \in 1..Len(src_sizes) :
       LET s == src_sizes[i]
           d == self_sizes[Len(self_sizes) - Len(src_sizes) + i]
       IN s = d \/ s = 1

CopyResult(ts, result, warned, threw) ==
  [ts |-> ts, result |-> result, warned |-> warned, threw |-> threw]

\* at::native copy_ on two tensors without the wrapper key: self's content
\* becomes src's, and self is returned; sizes that do not broadcast throw.
native_copy_(ts, self, src) ==
  IF Broadcastable(ts[src].sizes, ts[self].sizes)
  THEN CopyResult([ts EXCEPT ![self].data = ts[src].data], self, FALSE, FALSE)
  ELSE CopyResult(ts, None, FALSE, TRUE)

RECURSIVE copy_wrapper_tensor_(_, _, _)

\* Tensor::copy_ as the dispatcher routes it: the kernel registered for the
\* wrapper key when an operand carries that key, the native kernel otherwise.
copy_(ts, self, src) ==
  IF kGradWrapperKey \in KeySetOf(ts, self) \cup KeySetOf(ts, src)
  THEN copy_wrapper_tensor_(ts, self, src)
  ELSE native_copy_(ts, self, src)

\* mutant: the levels given at construction are compared
LevelsDiffer_construction_level(ts, self_impl, src_impl) ==
  ts[self_impl].level_ # ts[src_impl].level_

LevelsDiffer(ts, self_impl, src_impl) == level(ts, self_impl) # level(ts, src_impl)

copy_wrapper_tensor_(ts, self, src) ==
  LET self_impl == maybeGetTensorWrapper(ts, self)
      src_impl == maybeGetTensorWrapper(ts, src)
  IN IF self_impl = None \/ src_impl = None
     THEN CopyResult(ts, self, TRUE, FALSE)
     ELSE IF LevelsDiffer(ts, self_impl, src_impl)
     THEN CopyResult(ts, self, TRUE, FALSE)
     ELSE LET r == copy_(ts, value(ts, self_impl), value(ts, src_impl))
          IN CopyResult(r.ts, r.result, r.warned, r.threw)

\* ------------------------------------------------------------ fallback
IsTensor(a) == a # NonTensor

\* mutant: every wrapper is unwrapped, alive or dead
unwrapIfDeadAndIncrement_any_wrapper(ts, t) ==
  LET wrapped == maybeGetTensorWrapper(ts, t)
  IN IF wrapped = None THEN <<t, 0>> ELSE <<value(ts, wrapped), 1>>

\* mutant: a dead wrapper is counted but left on the stack
unwrapIfDeadAndIncrement_counts_only(ts, t) ==
  LET wrapped == maybeGetTensorWrapper(ts, t)
  IN IF wrapped = None THEN <<t, 0>>
     ELSE IF is_alive(ts, wrapped) THEN <<t, 0>>
     ELSE <<t, 1>>

\* the lambda of dead_tensor_wrapper_fallback: [new operand, 1 if unwrapped]
unwrapIfDeadAndIncrement(ts, t) ==
  LET wrapped == maybeGetTensorWrapper(ts, t)
  IN IF wrapped = None THEN <<t, 0>>
     ELSE IF is_alive(ts, wrapped) THEN <<t, 0>>
     ELSE <<value(ts, wrapped), 1>>

\* foreachTensorInplace(stack, begin, end, func): func on every Tensor operand
foreachTensorInplace(ts, args, begin, end) ==
  [i \in 1..Len(args) |->
     IF i > begin /\ i <= end /\ IsTensor(args[i])
     THEN unwrapIfDeadAndIncrement(ts, args[i])
     ELSE <<args[i], 0>>]

RECURSIVE SumCounts(_, _)
SumCounts(f, n) == IF n = 0 THEN 0 ELSE f[n][2] + SumCounts(f, n - 1)

\* mutant: the assertion accepts a count of zero
AssertUnwrapped_non_negative(unwrapped_count) == unwrapped_count >= 0

AssertUnwrapped(unwrapped_count) == unwrapped_count > 0

\* one invocation of the fallback on the operand list args
dead_tensor_wrapper_fallback(ts, args) ==
  LET args_size == Len(args)
      f == foreachTensorInplace(ts, args, Len(args) - args_size, Len(args))
      unwrapped_count == SumCounts(f, Len(args))
  IN [ok |-> AssertUnwrapped(unwrapped_count),
      stack |-> [i \in 1..Len(args) |-> f[i][1]],
      unwrapped_count |-> unwrapped_count]

\* ------------------------------------------------------------ actions
Init ==
  /\ tensors = PlainInputs
  /\ madeBy = [i \in 1..Len(PlainInputs) |-> "input"]
  /\ copyOf = [i \in 1..Len(PlainInputs) |-> None]
  /\ handles = <<>>
  /\ layerStack = <<>>
  /\ pc = "idle"
  /\ stack = <<>>
  /\ entry = <<>>
  /\ calls = 0
  /\ outcome = Outcome("init", "ok", None, None, None, FALSE, None, FALSE)

pushDynamicLayer ==
  /\ pc = "idle"
  /\ Len(layerStack) < MaxDepth
  /\ Len(handles) < MaxHandles
  /\ handles' = Append(handles, TRUE)
  /\ layerStack' = Append(layerStack, Len(handles) + 1)
  /\ outcome' = Outcome("pushDynamicLayer", "ok", None, None, Len(layerStack) + 1,
                        FALSE, Len(handles) + 1, FALSE)
  /\ UNCHANGED <<tensors, madeBy, copyOf, pc, stack, entry, calls>>

markDead(hs, h) == [hs EXCEPT ![h] = FALSE]

popDynamicLayer ==
  /\ pc = "idle"
  /\ layerStack # <<>>
  /\ LET h == layerStack[Len(layerStack)]
     IN /\ handles' = markDead(handles, h)
        /\ outcome' = Outcome("popDynamicLayer", "ok", None, None, Len(layerStack),
                              FALSE, h, FALSE)
  /\ layerStack' = SubSeq(layerStack, 1, Len(layerStack) - 1)
  /\ UNCHANGED <<tensors, madeBy, copyOf, pc, stack, entry, calls>>

\* markDead called again on the handle of a scope that has already exited
MarkDeadAgain ==
  /\ pc = "idle"
  /\ \E h \in 1..Len(handles) :
       /\ \A l \in 1..Len(layerStack) : layerStack[l] # h
       /\ handles' = markDead(handles, h)
       /\ outcome' = Outcome("markDead", "ok", None, None, None, FALSE, h, FALSE)
  /\ UNCHANGED <<tensors, madeBy, copyOf, layerStack, pc, stack, entry, calls>>

MakeTensorWrapper ==
  /\ pc = "idle"
  /\ Len(tensors) < MaxTensors
  /\ \E t \in Ids(tensors) \cup {Undefined}, lvl \in 1..MaxDepth :
       LET r == makeTensorWrapper(tensors, handles, t, lvl)
       IN /\ tensors' = r.ts
          /\ madeBy' = IF r.ok THEN Append(madeBy, "makeTensorWrapper") ELSE madeBy
          /\ copyOf' = IF r.ok THEN Append(copyOf, None) ELSE copyOf
          /\ handles' = r.hs
          /\ outcome' = Outcome("makeTensorWrapper", IF r.ok THEN "ok" ELSE "assert",
                                t, None, lvl, TRUE, r.result, FALSE)
  /\ UNCHANGED <<layerStack, pc, stack, entry, calls>>

MakeTensorWrapperPtr ==
  /\ pc = "idle"
  /\ Len(tensors) < MaxTensors
  /\ \E t \in Ids(tensors) \cup {Undefined}, lvl \in 1..MaxDepth, should_be_alive \in BOOLEAN :
       /\ should_be_alive \/ Len(handles) < MaxHandles
       /\ LET r == makeTensorWrapperPtr(tensors, handles, t, lvl, should_be_alive)
          IN /\ tensors' = r.ts
             /\ madeBy' = IF r.ok THEN Append(madeBy, "makeTensorWrapperPtr") ELSE madeBy
             /\ copyOf' = IF r.ok THEN Append(copyOf, None) ELSE copyOf
             /\ handles' = r.hs
             /\ outcome' = Outcome("makeTensorWrapperPtr", IF r.ok THEN "ok" ELSE "assert",
                                   t, None, lvl, should_be_alive, r.result, FALSE)
  /\ UNCHANGED <<layerStack, pc, stack, entry, calls>>

ShallowCopyAndDetach ==
  /\ pc = "idle"
  /\ Len(tensors) < MaxTensors
  /\ \E w \in Ids(tensors) :
       /\ tensors[w].impl = "TensorWrapper"
       /\ is_alive(tensors, w) \/ Len(handles) < MaxHandles
       /\ LET r == shallow_copy_and_detach(tensors, handles, w)
          IN /\ tensors' = r.ts
             /\ madeBy' = IF r.ok THEN Append(madeBy, "shallow_copy_and_detach") ELSE madeBy
             /\ copyOf' = IF r.ok THEN Append(copyOf, w) ELSE copyOf
             /\ handles' = r.hs
             /\ outcome' = Outcome("shallow_copy_and_detach", IF r.ok THEN "ok" ELSE "assert",
                                   w, None, tensors[w].level_, is_alive(tensors, w),
                                   r.result, FALSE)
  /\ UNCHANGED <<layerStack, pc, stack, entry, calls>>

\* the constructor called directly, as make_intrusive<TensorWrapper> calls it,
\* with either value of use_value_sizes_strides
Construct ==
  /\ pc = "idle"
  /\ Len(tensors) < MaxTensors
  /\ \E t \in Ids(tensors) \cup {Undefined}, lvl \in 1..Len(layerStack),
        use_value_sizes_strides \in BOOLEAN :
       LET r == TensorWrapper(tensors, WrapperKeySet(tensors, t), t, lvl,
                              getLifeHandleForLevel(lvl), use_value_sizes_strides)
       IN /\ tensors' = IF r.ok THEN Append(tensors, r.t) ELSE tensors
          /\ madeBy' = IF r.ok THEN Append(madeBy, "TensorWrapper") ELSE madeBy
          /\ copyOf' = IF r.ok THEN Append(copyOf, None) ELSE copyOf
          /\ outcome' = Outcome("TensorWrapper", IF r.ok THEN "ok" ELSE "assert",
                                t, None, lvl, use_value_sizes_strides,
                                IF r.ok THEN Len(tensors) + 1 ELSE None, FALSE)
  /\ UNCHANGED <<handles, layerStack, pc, stack, entry, calls>>

\* arguments tried on the unsupported setters
SetterDims == {0, 1}

SetterValues == {1, 3}

SetSize ==
  /\ pc = "idle"
  /\ \E w \in Ids(tensors), dim \in SetterDims, new_size \in SetterValues :
       /\ tensors[w].impl = "TensorWrapper"
       /\ LET r == set_size(tensors, w, dim, new_size)
          IN /\ tensors' = r.ts
             /\ outcome' = Outcome("set_size", IF r.ok THEN "ok" ELSE "assert",
                                   w, None, None, FALSE, None, FALSE)
  /\ UNCHANGED <<madeBy, copyOf, handles, layerStack, pc, stack, entry, calls>>

SetStride ==
  /\ pc = "idle"
  /\ \E w \in Ids(tensors), dim \in SetterDims, new_stride \in SetterValues :
       /\ tensors[w].impl = "TensorWrapper"
       /\ LET r == set_stride(tensors, w, dim, new_stride)
          IN /\ tensors' = r.ts
             /\ outcome' = Outcome("set_stride", IF r.ok THEN "ok" ELSE "assert",
                                   w, None, None, FALSE, None, FALSE)
  /\ UNCHANGED <<madeBy, copyOf, handles, layerStack, pc, stack, entry, calls>>

SetStorageOffset ==
  /\ pc = "idle"
  /\ \E w \in Ids(tensors), storage_offset \in SetterValues :
       /\ tensors[w].impl = "TensorWrapper"
       /\ LET r == set_storage_offset(tensors, w, storage_offset)
          IN /\ tensors' = r.ts
             /\ outcome' = Outcome("set_storage_offset", IF r.ok THEN "ok" ELSE "assert",
                                   w, None, None, FALSE, None, FALSE)
  /\ UNCHANGED <<madeBy, copyOf, handles, layerStack, pc, stack, entry, calls>>

ShallowCopyFrom ==
  /\ pc = "idle"
  /\ \E w \in Ids(tensors), impl \in Ids(tensors) :
       /\ tensors[w].impl = "TensorWrapper"
       /\ LET r == shallow_copy_from(tensors, w, impl)
          IN /\ tensors' = r.ts
             /\ outcome' = Outcome("shallow_copy_from", IF r.ok THEN "ok" ELSE "assert",
                                   w, None, None, FALSE, None, FALSE)
  /\ UNCHANGED <<madeBy, copyOf, handles, layerStack, pc, stack, entry, calls>>

\* dumpTensor on a stream: the text written is the result of the call
DumpTensor ==
  /\ pc = "idle"
  /\ \E tensor \in Ids(tensors) :
       outcome' = Outcome("dumpTensor", "ok", tensor, None, None, FALSE,
                          dumpTensor(tensors, tensor), FALSE)
  /\ UNCHANGED <<tensors, madeBy, copyOf, handles, layerStack, pc, stack, entry, calls>>

Copy ==
  /\ pc = "idle"
  /\ \E self \in Ids(tensors), src \in Ids(tensors) :
       LET r == copy_wrapper_tensor_(tensors, self, src)
       IN /\ tensors' = r.ts
          /\ outcome' = Outcome("copy_", IF r.threw THEN "throw" ELSE "ok",
                                self, src, None, FALSE, r.result, r.warned)
  /\ UNCHANGED <<madeBy, copyOf, handles, layerStack, pc, stack, entry, calls>>

Operands == Ids(tensors) \cup {NonTensor}

\* an operator is called on a boxed stack of operands
Dispatch ==
  /\ pc = "idle"
  /\ \E n \in 0..MaxArgs : \E args \in [1..n -> Operands] :
       /\ stack' = args
       /\ entry' = args
       /\ outcome' = Outcome("callBoxed", "ok", None, None, None, FALSE, None, FALSE)
  /\ pc' = "dispatch"
  /\ calls' = 0
  /\ UNCHANGED <<tensors, madeBy, copyOf, handles, layerStack>>

IsDeadWrapper(ts, a) ==
  /\ IsTensor(a)
  /\ maybeGetTensorWrapper(ts, a) # None
  /\ ~is_alive(ts, a)

\* the call in flight reaches the backend fallback of the wrapper key
DeadTensorWrapperFallback ==
  /\ pc = "dispatch"
  /\ LET r == dead_tensor_wrapper_fallback(tensors, stack)
     IN IF r.ok
        THEN /\ stack' = r.stack
             /\ entry' = entry
             /\ calls' = calls + 1
             /\ pc' = "dispatch"
             /\ outcome' = Outcome("dead_tensor_wrapper_fallback", "ok", None, None, None,
                                   FALSE, r.unwrapped_count, FALSE)
        ELSE /\ stack' = <<>>
             /\ entry' = <<>>
             /\ calls' = 0
             /\ pc' = "idle"
             /\ outcome' = Outcome("dead_tensor_wrapper_fallback", "assert", None, None,
                                   None, FALSE, r.unwrapped_count, FALSE)
  /\ UNCHANGED <<tensors, madeBy, copyOf, handles, layerStack>>

\* the call in flight is served by a kernel other than the fallback
Kernel ==
  /\ pc = "dispatch"
  /\ \A i \in 1..Len(stack) : ~IsDeadWrapper(tensors, stack[i])
  /\ pc' = "idle"
  /\ outcome' = Outcome("kernel", "ok", None, None, None, FALSE, None, FALSE)
  /\ stack' = <<>>
  /\ entry' = <<>>
  /\ calls' = 0
  /\ UNCHANGED <<tensors, madeBy, copyOf, handles, layerStack>>

Next ==
  \/ pushDynamicLayer
  \/ popDynamicLayer
  \/ MarkDeadAgain
  \/ MakeTensorWrapper
  \/ MakeTensorWrapperPtr
  \/ ShallowCopyAndDetach
  \/ Construct
  \/ SetSize
  \/ SetStride
  \/ SetStorageOffset
  \/ ShallowCopyFrom
  \/ DumpTensor
  \/ Copy
  \/ Dispatch
  \/ DeadTensorWrapperFallback
  \/ Kernel

Spec == Init /\ [][Next]_vars


\* ============================================================ claims
Wrappers == {p \in Ids(tensors) : tensors[p].impl = "TensorWrapper"}

Makers == {"makeTensorWrapper", "makeTensorWrapperPtr", "shallow_copy_and_detach"}

\* C1: for every wrapper, while its life handle is true is_alive() is true and
\* level() is present and equal to the level given at construction; once the
\* handle is false, is_alive() is false and level() is absent, and they stay so
\* in every later state (a handle never returns to true, a second markDead
\* changes nothing).
C1_LevelFollowsHandle ==
  [][
      /\ \A p \in Wrappers :
          LET h == tensors[p].is_alive_
          IN /\ handles[h] => /\ is_alive(tensors, p)
                              /\ level(tensors, p) # None
                              /\ level(tensors, p) = tensors[p].level_
             /\ ~handles[h] => /\ ~is_alive(tensors, p)
                               /\ level(tensors, p) = None
                               /\ ~handles'[h]
                               /\ ~(is_alive(tensors, p))'
                               /\ (level(tensors, p))' = None
             /\ tensors'[p].level_ = tensors[p].level_
             /\ tensors'[p].is_alive_ = h
      /\ (outcome'.op \in Makers /\ outcome'.status = "ok")
            => tensors'[outcome'.result].level_ = outcome'.level
      /\ outcome'.op = "markDead" => handles' = handles]_vars

\* C1 witness: a scope has just exited and a wrapper created in it is dead.
C1_Witness ==
  /\ outcome.op = "popDynamicLayer"
  /\ \E p \in Wrappers :
       /\ tensors[p].is_alive_ = outcome.result
       /\ ~is_alive(tensors, p)
       /\ level(tensors, p) = None

\* C2: one invocation of the fallback on operands of which at least one is a
\* dead wrapper re-dispatches the call exactly once, with an operand list of
\* the same length and order in which each dead wrapper is replaced by its
\* value_ (one layer removed) and every other operand is unchanged; a dead
\* level-2 wrapper over an alive level-1 wrapper is re-dispatched as that
\* level-1 wrapper (same sizes, level() = 1).
C2_FallbackUnwrapsDeadOnly ==
  [][(/\ pc = "dispatch"
      /\ outcome'.op = "dead_tensor_wrapper_fallback"
      /\ \E i \in 1..Len(stack) :
           stack[i] \in Wrappers /\ ~handles[tensors[stack[i]].is_alive_])
     => /\ outcome'.status = "ok"
        /\ pc' = "dispatch"
        /\ calls' = calls + 1
        /\ Len(stack') = Len(stack)
        /\ tensors' = tensors /\ handles' = handles
        /\ \A i \in 1..Len(stack) :
             IF stack[i] \in Wrappers /\ ~handles[tensors[stack[i]].is_alive_]
             THEN /\ stack'[i] = tensors[stack[i]].value_
                  /\ (/\ tensors[stack[i]].level_ = 2
                      /\ stack'[i] \in Wrappers
                      /\ tensors[stack'[i]].level_ = 1
                      /\ handles[tensors[stack'[i]].is_alive_])
                     => /\ level(tensors, stack'[i]) = 1
                        /\ tensors[stack'[i]].sizes = tensors[stack[i]].sizes
             ELSE stack'[i] = stack[i]]_vars

\* C2 witness: the fallback has re-dispatched a two-operand call once, and an
\* operand is now the alive level-1 wrapper that a dead level-2 wrapper held.
C2_Witness ==
  /\ pc = "dispatch"
  /\ outcome.op = "dead_tensor_wrapper_fallback"
  /\ calls = 1
  /\ Len(stack) = 2
  /\ \E i \in 1..Len(stack), w \in Wrappers :
       /\ stack[i] \in Wrappers
       /\ tensors[w].value_ = stack[i]
       /\ tensors[w].level_ = 2
       /\ ~is_alive(tensors, w)
       /\ level(tensors, stack[i]) = 1

\* C7: the fallback invoked on operands none of which is a dead wrapper fails
\* its assertion and does not re-dispatch the call.
C7_FallbackNeedsDeadWrapper ==
  [][(/\ pc = "dispatch"
      /\ outcome'.op = "dead_tensor_wrapper_fallback"
      /\ \A i \in 1..Len(stack) :
           ~(stack[i] \in Wrappers /\ ~handles[tensors[stack[i]].is_alive_]))
     => /\ outcome'.status = "assert"
        /\ outcome'.result = 0
        /\ pc' = "idle"
        /\ tensors' = tensors /\ handles' = handles]_vars

\* C7 witness: the fallback has failed its assertion while an alive wrapper
\* exists (a call on an alive wrapper can reach it).
C7_Witness ==
  /\ outcome.op = "dead_tensor_wrapper_fallback"
  /\ outcome.status = "assert"
  /\ pc = "idle"
  /\ \E p \in Wrappers : is_alive(tensors, p)

\* C3: copy_ whose destination and source are both wrappers at the same level
\* (here: two distinct alive wrappers, the source's sizes fitting the
\* destination's) copies the source's value_ into the destination's value_ (afterwards the two
\* hold the same content, the source is unchanged) and returns the destination
\* operand, the destination wrapper itself.
C3_CopyReturnsDestination ==
  [][(/\ outcome'.op = "copy_"
      /\ outcome'.self \in Wrappers
      /\ outcome'.other \in Wrappers
      /\ outcome'.self # outcome'.other
      /\ is_alive(tensors, outcome'.self)
      /\ is_alive(tensors, outcome'.other)
      /\ tensors[outcome'.self].level_ = tensors[outcome'.other].level_
      /\ Broadcastable(tensors[outcome'.other].sizes, tensors[outcome'.self].sizes))
     => LET self == outcome'.self
            src == outcome'.other
        IN /\ outcome'.status = "ok"
           /\ tensors'[tensors[self].value_].data = tensors'[tensors[src].value_].data
           /\ tensors'[src] = tensors[src]
           /\ tensors'[tensors[src].value_] = tensors[tensors[src].value_]
           /\ outcome'.result = self]_vars

\* C4: copy_ whose destination or source is not a wrapper, or whose wrappers
\* were constructed with different levels (alive or dead alike), does not fail,
\* warns, leaves every tensor unchanged and returns the destination.
C4_CopyMismatchIsNoOp ==
  [][(/\ outcome'.op = "copy_"
      /\ \/ outcome'.self \notin Wrappers
         \/ outcome'.other \notin Wrappers
         \/ tensors[outcome'.self].level_ # tensors[outcome'.other].level_)
     => /\ outcome'.status = "ok"
        /\ outcome'.warned
        /\ tensors' = tensors
        /\ outcome'.result = outcome'.self]_vars

\* C5: makeTensorWrapper on a wrapper that makeTensorWrapper built at a lower
\* level succeeds
\* (at an active level), and on a wrapper whose construction level is not
\* strictly lower than the requested level it fails its assertion and creates
\* no wrapper.
C5_WrapOrderChecked ==
  (/\ outcome.op = "makeTensorWrapper"
   /\ outcome.self \in Wrappers
   /\ madeBy[outcome.self] = "makeTensorWrapper")
  => LET inner == tensors[outcome.self].level_
     IN /\ (inner < outcome.level /\ outcome.level <= Len(layerStack))
             => /\ outcome.status = "ok"
                /\ outcome.result \in Wrappers
                /\ tensors[outcome.result].value_ = outcome.self
                /\ tensors[outcome.result].level_ = outcome.level
        /\ ~(inner < outcome.level)
             => /\ outcome.status = "assert"
                /\ outcome.result = None

\* C6: every wrapper whose value_ is itself a wrapper has a level_ strictly
\* greater than the inner wrapper's level_, whichever entry point built it and
\* whether the inner wrapper was alive or dead when it was wrapped.
C6_NestedLevelsIncrease ==
  \A p \in Wrappers :
    tensors[p].value_ \in Wrappers => tensors[p].level_ > tensors[tensors[p].value_].level_

\* C8: right after makeTensorWrapper, makeTensorWrapperPtr or
\* shallow_copy_and_detach has built a wrapper, its mirrored sizes, strides,
\* storage offset and element count equal those of its value_ (one size and
\* one stride per dimension, in the same order).
C8_MetadataMirrorsValue ==
  (outcome.op \in Makers /\ outcome.status = "ok")
  => LET w == tensors[outcome.result]
         v == tensors[w.value_]
     IN /\ Len(w.sizes) = Len(v.sizes)
        /\ Len(w.strides) = Len(v.sizes)
        /\ \A i \in 1..Len(v.sizes) : w.sizes[i] = v.sizes[i] /\ w.strides[i] = v.strides[i]
        /\ w.storage_offset = v.storage_offset
        /\ w.numel = v.numel

\* C8 witness: a wrapper has just been built over a wrapper of the strided
\* [4] input at storage offset 1.
C8_Witness ==
  /\ outcome.op \in Makers
  /\ outcome.status = "ok"
  /\ tensors[outcome.result].value_ \in Wrappers
  /\ tensors[outcome.result].sizes = <<4>>
  /\ tensors[outcome.result].strides = <<2>>
  /\ tensors[outcome.result].storage_offset = 1
  /\ tensors[outcome.result].numel = 4

\* C9: shallow_copy_and_detach on a wrapper p succeeds and returns a new
\* wrapper, distinct from p, with p's value_ (shared, no new tensor besides the
\* wrapper), p's level_ and p's is_alive() at that moment, for alive and dead
\* p; p and every other tensor are unchanged.
C9_ShallowCopyKeepsIdentity ==
  [][(outcome'.op = "shallow_copy_and_detach")
     => LET p == outcome'.self
            q == outcome'.result
        IN /\ outcome'.status = "ok"
           /\ q # p
           /\ q \notin Ids(tensors)
           /\ Len(tensors') = Len(tensors) + 1
           /\ \A t \in Ids(tensors) : tensors'[t] = tensors[t]
           /\ tensors'[q].impl = "TensorWrapper"
           /\ tensors'[q].value_ = tensors[p].value_
           /\ tensors'[q].level_ = tensors[p].level_
           /\ handles'[tensors'[q].is_alive_] = is_alive(tensors, p)
           /\ handles'[tensors'[p].is_alive_] = is_alive(tensors, p)]_vars

\* C9 witness: a dead wrapper whose level is active again has been copied.
C9_Witness ==
  /\ outcome.op = "shallow_copy_and_detach"
  /\ outcome.status = "ok"
  /\ ~is_alive(tensors, outcome.self)
  /\ tensors[outcome.self].level_ <= Len(layerStack)
  /\ ~is_alive(tensors, outcome.result)

\* C10: maybeGetTensorWrapper returns the wrapper exactly when the tensor's key
\* set has the wrapper key; every wrapper built by any entry point has that
\* key in every state, alive or dead, and a tensor never wrapped (or an
\* undefined one) yields nullptr.
C10_WrapperKeyMarksWrappers ==
  /\ maybeGetTensorWrapper(tensors, Undefined) = None
  /\ \A t \in Ids(tensors) :
       /\ (maybeGetTensorWrapper(tensors, t) # None) = (kGradWrapperKey \in tensors[t].key_set)
       /\ (t \in Wrappers) = (maybeGetTensorWrapper(tensors, t) = t)
       /\ (t \notin Wrappers) = (maybeGetTensorWrapper(tensors, t) = None)
  /\ (outcome.op \in Makers /\ outcome.status = "ok")
       => kGradWrapperKey \in tensors[outcome.result].key_set

\* C10 witness: a wrapper built dead by makeTensorWrapperPtr is found, and the
\* plain tensor under it is not.
C10_Witness ==
  /\ outcome.op = "makeTensorWrapperPtr"
  /\ outcome.status = "ok"
  /\ ~outcome.flag
  /\ ~is_alive(tensors, outcome.result)
  /\ maybeGetTensorWrapper(tensors, outcome.result) = outcome.result
  /\ maybeGetTensorWrapper(tensors, tensors[outcome.result].value_) = None

\* C11 as stated: every wrapper's key set is its value_'s keys filtered by the
\* propagation mask, united with the three autograd keys and the wrapper key,
\* so every wrapper carries the three autograd keys whatever keys its value_
\* has.
C11_AutogradKeysAlwaysAdded ==
  \A p \in Wrappers :
    /\ tensors[p].key_set =
         (KeySetOf(tensors, tensors[p].value_) \cap kKeysToPropagateToWrapper)
           \cup AutogradKeys \cup {kGradWrapperKey}
    /\ AutogradKeys \subseteq tensors[p].key_set

\* C11 amended: every wrapper's key set is its value_'s keys filtered by the
\* mask (the propagated backend keys together with the three autograd keys),
\* united with the wrapper key only; a wrapper carries an autograd key exactly
\* when its value_ carries it.
C11_AutogradKeysFiltered ==
  \A p \in Wrappers :
    /\ tensors[p].key_set =
         (KeySetOf(tensors, tensors[p].value_) \cap (kKeysToPropagateToWrapper \cup AutogradKeys))
           \cup {kGradWrapperKey}
    /\ \A k \in AutogradKeys :
         (k \in tensors[p].key_set) = (k \in KeySetOf(tensors, tensors[p].value_))

\* C11 witness: a wrapper over the CUDA input, which has no autograd key, has
\* been built and carries no autograd key, next to a wrapper over the CPU input
\* that carries AutogradCPU alone.
C11_Witness ==
  /\ outcome.op \in Makers
  /\ outcome.status = "ok"
  /\ tensors[outcome.result].value_ = 2
  /\ tensors[outcome.result].key_set = {"CUDA", kGradWrapperKey}
  /\ \E p \in Wrappers :
       /\ tensors[p].value_ = 1
       /\ tensors[p].key_set = {"CPU", "AutogradCPU", kGradWrapperKey}

\* C12 as stated: any two wrappers with the same level_ reference one life
\* handle, so they agree on is_alive().
C12_SameLevelSameHandle ==
  \A p \in Wrappers, q \in Wrappers :
    tensors[p].level_ = tensors[q].level_
      => /\ tensors[p].is_alive_ = tensors[q].is_alive_
         /\ is_alive(tensors, p) = is_alive(tensors, q)

\* C12 amended: any two alive wrappers with the same level_ reference one life
\* handle, the handle of that level's active scope, so they agree on
\* is_alive() after every step and a markDead of that handle makes both dead
\* in the same step; wrappers that are dead may hold handles of their own.
C12_AliveSameLevelSameHandle ==
  [][\A p \in Wrappers, q \in Wrappers :
       (/\ is_alive(tensors, p)
        /\ is_alive(tensors, q)
        /\ tensors[p].level_ = tensors[q].level_)
       => /\ tensors[p].is_alive_ = tensors[q].is_alive_
          /\ tensors[p].level_ \in 1..Len(layerStack)
          /\ layerStack[tensors[p].level_] = tensors[p].is_alive_
          /\ handles'[tensors'[p].is_alive_] = handles'[tensors'[q].is_alive_]
          /\ (outcome'.op = "popDynamicLayer" /\ outcome'.result = tensors[p].is_alive_)
               => ~handles'[tensors'[p].is_alive_] /\ ~handles'[tensors'[q].is_alive_]]_vars

\* C12 witness: a scope has just exited and two distinct wrappers created at
\* its level, which share its handle, are both dead.
C12_Witness ==
  /\ outcome.op = "popDynamicLayer"
  /\ \E p \in Wrappers, q \in Wrappers :
       /\ p # q
       /\ tensors[p].level_ = outcome.level
       /\ tensors[q].level_ = outcome.level
       /\ tensors[p].is_alive_ = outcome.result
       /\ tensors[q].is_alive_ = outcome.result
       /\ ~is_alive(tensors, p)
       /\ ~is_alive(tensors, q)

Unsupported == {"set_size", "set_stride", "set_storage_offset", "shallow_copy_from"}

\* C13: set_size, set_stride, set_storage_offset and shallow_copy_from fail
\* their assertion on every wrapper and for every argument, alive or dead, and
\* leave the wrapper's mirrored metadata, level_, value_ and liveness (and
\* every other tensor and handle) unchanged.
C13_UnsupportedAlwaysFail ==
  [][(outcome'.op \in Unsupported)
     => LET w == outcome'.self
        IN /\ w \in Wrappers
           /\ outcome'.status = "assert"
           /\ tensors'[w].sizes = tensors[w].sizes
           /\ tensors'[w].strides = tensors[w].strides
           /\ tensors'[w].storage_offset = tensors[w].storage_offset
           /\ tensors'[w].numel = tensors[w].numel
           /\ tensors'[w].level_ = tensors[w].level_
           /\ tensors'[w].value_ = tensors[w].value_
           /\ tensors'[w].is_alive_ = tensors[w].is_alive_
           /\ handles'[tensors'[w].is_alive_] = handles[tensors[w].is_alive_]
           /\ tensors' = tensors
           /\ handles' = handles
           /\ layerStack' = layerStack]_vars

\* C13 witness: set_size has failed on a dead wrapper while an alive wrapper
\* exists.
C13_Witness ==
  /\ outcome.op = "set_size"
  /\ outcome.status = "assert"
  /\ ~is_alive(tensors, outcome.self)
  /\ \E p \in Wrappers : is_alive(tensors, p)

\* C14: in every reachable state every wrapper has a defined value_; the
\* constructor called with an undefined value, or with
\* use_value_sizes_strides = false, fails its assertion and yields no wrapper,
\* and no step (markDead, shallow copy, fallback, copy_) changes a wrapper's
\* value_.
C14_ValueAlwaysDefined ==
  [][/\ \A p \in Wrappers :
          /\ tensors[p].value_ # Undefined
          /\ tensors[p].value_ \in Ids(tensors)
          /\ tensors'[p].value_ = tensors[p].value_
     /\ \A p \in Ids(tensors') :
          tensors'[p].impl = "TensorWrapper" => tensors'[p].value_ \in Ids(tensors')
     /\ (/\ outcome'.op = "TensorWrapper"
         /\ (outcome'.self = Undefined \/ ~outcome'.flag))
        => /\ outcome'.status = "assert"
           /\ outcome'.result = None
           /\ tensors' = tensors
     /\ (/\ outcome'.op \in Makers
         /\ outcome'.self = Undefined)
        => /\ outcome'.status = "assert"
           /\ tensors' = tensors]_vars

\* C14 witness: the constructor has failed on a defined value because
\* use_value_sizes_strides was false, and the wrappers built before are intact.
C14_Witness ==
  /\ outcome.op = "TensorWrapper"
  /\ outcome.status = "assert"
  /\ outcome.self # Undefined
  /\ ~outcome.flag
  /\ Wrappers # {}
  /\ \A p \in Wrappers : tensors[p].value_ # Undefined

\* the scenario of C15: p is a wrapper built at level 3 over an alive level-1
\* wrapper over a plain tensor of sizes [4]
Level3OverLevel1(p) ==
  /\ p \in Wrappers
  /\ tensors[p].level_ = 3
  /\ tensors[p].value_ \in Wrappers
  /\ tensors[tensors[p].value_].level_ = 1
  /\ handles[tensors[tensors[p].value_].is_alive_]
  /\ tensors[tensors[p].value_].value_ \notin Wrappers
  /\ tensors[tensors[tensors[p].value_].value_].sizes = <<4>>

\* C15: the dump of an alive wrapper at level N is "Wrapper[lvl=N, " followed
\* by the dump of its value_ and "]", the dump of a dead wrapper is
\* "Wrapper[dead, " followed by the dump of its value_ and "]", and the dump of
\* a plain tensor is "Tensor" followed by its sizes; an alive level-3 wrapper
\* over an alive level-1 wrapper over a plain [4] tensor dumps as
\* Wrapper[lvl=3, Wrapper[lvl=1, Tensor[4]]] and, once level 3's handle is
\* dead, as Wrapper[dead, Wrapper[lvl=1, Tensor[4]]]. Dumping changes no state.
C15_DumpIsRecursive ==
  [][(outcome'.op = "dumpTensor")
     => LET p == outcome'.self
            text == outcome'.result
        IN /\ UNCHANGED <<tensors, madeBy, copyOf, handles, layerStack, pc, stack, entry, calls>>
           /\ (p \in Wrappers /\ handles[tensors[p].is_alive_])
                => text = "Wrapper[lvl=" \o ToString(tensors[p].level_) \o ", "
                            \o dumpTensor(tensors, tensors[p].value_) \o "]"
           /\ (p \in Wrappers /\ ~handles[tensors[p].is_alive_])
                => text = "Wrapper[dead, " \o dumpTensor(tensors, tensors[p].value_) \o "]"
           /\ p \notin Wrappers
                => text = "Tensor" \o ArrayRefToString(tensors[p].sizes)
           /\ (Level3OverLevel1(p) /\ handles[tensors[p].is_alive_])
                => text = "Wrapper[lvl=3, Wrapper[lvl=1, Tensor[4]]]"
           /\ (Level3OverLevel1(p) /\ ~handles[tensors[p].is_alive_])
                => text = "Wrapper[dead, Wrapper[lvl=1, Tensor[4]]]"
           /\ p = 1 => text = "Tensor[2, 4]"]_vars

\* C15 witness: level 3's scope has exited and the wrapper built in it over an
\* alive level-1 wrapper has been dumped as Wrapper[dead, Wrapper[lvl=1, Tensor[4]]].
C15_Witness ==
  /\ outcome.op = "dumpTensor"
  /\ Level3OverLevel1(outcome.self)
  /\ ~is_alive(tensors, outcome.self)
  /\ Len(layerStack) = 2
  /\ outcome.result = "Wrapper[dead, Wrapper[lvl=1, Tensor[4]]]"

\* the number of wrapper layers around an operand
RECURSIVE NestingDepth(_, _)
NestingDepth(ts, a) ==
  IF ~IsTensor(a) THEN 0
  ELSE IF maybeGetTensorWrapper(ts, a) = None THEN 0
  ELSE 1 + NestingDepth(ts, ts[a].value_)

RECURSIVE MaxNestingDepth(_, _)
MaxNestingDepth(ts, args) ==
  IF args = <<>> THEN 0
  ELSE LET d == NestingDepth(ts, Head(args))
           m == MaxNestingDepth(ts, Tail(args))
       IN IF d > m THEN d ELSE m

RECURSIVE SumNestingDepth(_, _)
SumNestingDepth(ts, args) ==
  IF args = <<>> THEN 0
  ELSE NestingDepth(ts, Head(args)) + SumNestingDepth(ts, Tail(args))

\* C16: the unwrap-and-re-dispatch loop ends. A fallback invocation entered
\* with an operand whose outermost wrapper is dead passes its assertion and
\* removes exactly one layer from every such operand in one pass (the other
\* operands are untouched), so the total nesting of the operands strictly
\* decreases; the call is never re-dispatched more often than the deepest
\* nesting of the operands it was first made with, and after that many
\* re-dispatches no operand's outermost wrapper is dead.
C16_UnwrapLoopTerminates ==
  [][(pc = "dispatch")
     => /\ calls <= MaxNestingDepth(tensors, entry)
        /\ Len(stack) = Len(entry)
        /\ calls = MaxNestingDepth(tensors, entry)
             => \A i \in 1..Len(stack) : ~IsDeadWrapper(tensors, stack[i])
        /\ (/\ outcome'.op = "dead_tensor_wrapper_fallback"
            /\ \E i \in 1..Len(stack) : IsDeadWrapper(tensors, stack[i]))
           => /\ outcome'.status = "ok"
              /\ pc' = "dispatch"
              /\ calls' = calls + 1
              /\ calls' <= MaxNestingDepth(tensors, entry)
              /\ entry' = entry
              /\ \A i \in 1..Len(stack) :
                   /\ IsDeadWrapper(tensors, stack[i]) =>
                        /\ stack'[i] = tensors[stack[i]].value_
                        /\ NestingDepth(tensors, stack'[i]) = NestingDepth(tensors, stack[i]) - 1
                   /\ ~IsDeadWrapper(tensors, stack[i]) => stack'[i] = stack[i]
              /\ SumNestingDepth(tensors, stack') < SumNestingDepth(tensors, stack)
        /\ outcome'.op = "kernel"
           => \A i \in 1..Len(stack) : ~IsDeadWrapper(tensors, stack[i])]_vars

\* C16 witness: a call made with a dead wrapper over a dead wrapper has been
\* re-dispatched twice, and its operand is now the plain tensor under both.
C16_Witness ==
  /\ pc = "dispatch"
  /\ outcome.op = "dead_tensor_wrapper_fallback"
  /\ calls = 2
  /\ MaxNestingDepth(tensors, entry) = 2
  /\ \E i \in 1..Len(entry) :
       /\ NestingDepth(tensors, entry[i]) = 2
       /\ IsDeadWrapper(tensors, entry[i])
       /\ IsDeadWrapper(tensors, tensors[entry[i]].value_)
       /\ stack[i] = tensors[tensors[entry[i]].value_].value_
  /\ \A i \in 1..Len(stack) : ~IsDeadWrapper(tensors, stack[i])

\* both operands are wrappers whose level() are equal as optionals: both dead,
\* or both alive with the same level_
SameOptionalLevel(self, src) ==
  /\ self \in Wrappers
  /\ src \in Wrappers
  /\ LET a == handles[tensors[self].is_alive_]
         b == handles[tensors[src].is_alive_]
     IN \/ ~a /\ ~b
        \/ a /\ b /\ tensors[self].level_ = tensors[src].level_

\* C17: the copy_ kernel copies exactly when both operands are wrappers whose
\* level() are equal as optionals: then it does what copy_ of the destination's
\* value_ from the source's value_ does (for plain value_s whose sizes fit, the
\* destination's value_ receives the source's content and nothing warns), so
\* two dead wrappers are copied whatever levels they were constructed with;
\* otherwise (an alive and a dead wrapper with the same level_ included) it
\* warns, changes no tensor and returns the destination.
C17_CopyIffOptionalLevelsEqual ==
  [][(outcome'.op = "copy_")
     => LET self == outcome'.self
            src == outcome'.other
        IN /\ SameOptionalLevel(self, src)
              => LET dv == tensors[self].value_
                     sv == tensors[src].value_
                     inner == copy_(tensors, dv, sv)
                 IN /\ tensors' = inner.ts
                    /\ outcome'.result = inner.result
                    /\ outcome'.warned = inner.warned
                    /\ outcome'.result # self
                    /\ (dv \notin Wrappers /\ sv \notin Wrappers
                          /\ Broadcastable(tensors[sv].sizes, tensors[dv].sizes))
                       => /\ outcome'.status = "ok"
                          /\ ~outcome'.warned
                          /\ tensors'[dv].data = tensors[sv].data
                          /\ \A t \in Ids(tensors) : t # dv => tensors'[t] = tensors[t]
           /\ ~SameOptionalLevel(self, src)
              => /\ outcome'.status = "ok"
                 /\ outcome'.warned
                 /\ outcome'.result = self
                 /\ tensors' = tensors]_vars

\* C17 witness: a dead wrapper built at one level has received the content of
\* a dead wrapper built at another level, without a warning.
C17_Witness ==
  /\ outcome.op = "copy_"
  /\ outcome.status = "ok"
  /\ ~outcome.warned
  /\ outcome.self \in Wrappers
  /\ outcome.other \in Wrappers
  /\ ~is_alive(tensors, outcome.self)
  /\ ~is_alive(tensors, outcome.other)
  /\ tensors[outcome.self].level_ # tensors[outcome.other].level_
  /\ tensors[outcome.self].value_ # tensors[outcome.other].value_
  /\ tensors[tensors[outcome.self].value_].data = tensors[tensors[outcome.other].value_].data

\* C18: a wrapper q made by shallow_copy_and_detach from p reports the same
\* is_alive() and the same level() as p in every later state, whatever scopes
\* are pushed or exited and whatever is wrapped afterwards: the copy of an
\* alive wrapper dies in the step in which the original dies, and the copy of
\* a dead wrapper is never alive.
C18_CopyAgreesForever ==
  \A q \in Wrappers :
    copyOf[q] # None
      => LET p == copyOf[q]
         IN /\ p \in Wrappers
            /\ is_alive(tensors, q) = is_alive(tensors, p)
            /\ level(tensors, q) = level(tensors, p)
            /\ tensors[q].level_ = tensors[p].level_
            /\ (tensors[q].is_alive_ # tensors[p].is_alive_) => ~is_alive(tensors, q)

\* C18 witness: a scope has just exited, and a wrapper of that scope and the
\* copy made of it while it was alive, which shares its handle, are both dead.
C18_Witness ==
  /\ outcome.op = "popDynamicLayer"
  /\ \E q \in Wrappers :
       /\ copyOf[q] # None
       /\ tensors[q].is_alive_ = outcome.result
       /\ tensors[copyOf[q]].is_alive_ = outcome.result
       /\ ~is_alive(tensors, q)
       /\ ~is_alive(tensors, copyOf[q])

\* C19: liveness follows the scope instance, not the level number. A step
\* that pushes a scope makes a handle no wrapper references, so every wrapper
\* that was dead stays dead, those built at the pushed level included; a
\* wrapper that makeTensorWrapper then builds at that level is alive and its
\* handle differs from the handle of every dead wrapper of the same level_.
C19_LivenessFollowsScope ==
  [][/\ (outcome'.op = "pushDynamicLayer")
        => LET L == outcome'.level
               h == outcome'.result
           IN /\ layerStack'[L] = h
              /\ h \notin 1..Len(handles)
              /\ handles'[h]
              /\ \A p \in Wrappers :
                   /\ tensors'[p].is_alive_ # h
                   /\ handles'[tensors'[p].is_alive_] = handles[tensors[p].is_alive_]
                   /\ (tensors[p].level_ = L) => ~handles'[tensors'[p].is_alive_]
     /\ (outcome'.op = "makeTensorWrapper" /\ outcome'.status = "ok")
        => LET n == outcome'.result
           IN /\ handles'[tensors'[n].is_alive_]
              /\ tensors'[n].is_alive_ = layerStack[outcome'.level]
              /\ \A p \in Wrappers :
                   (tensors[p].level_ = outcome'.level /\ ~handles[tensors[p].is_alive_])
                     => /\ tensors'[p].is_alive_ # tensors'[n].is_alive_
                        /\ ~handles'[tensors'[p].is_alive_]]_vars

\* C19 witness: makeTensorWrapper has built an alive wrapper at a level at
\* which a wrapper of an earlier, exited scope is dead; the two were built by
\* the same entry point at the same level and hold different handles.
C19_Witness ==
  /\ outcome.op = "makeTensorWrapper"
  /\ outcome.status = "ok"
  /\ is_alive(tensors, outcome.result)
  /\ \E p \in Wrappers :
       /\ madeBy[p] = "makeTensorWrapper"
       /\ tensors[p].level_ = outcome.level
       /\ ~is_alive(tensors, p)
       /\ tensors[p].is_alive_ # tensors[outcome.result].is_alive_

\* C20: makeTensorWrapperPtr(t, lvl, false) gives the new wrapper a fresh
\* handle that is false and that nothing else references; the wrapper is dead
\* from then on, and building it changes no existing handle, so every other
\* wrapper keeps its liveness and the alive wrappers of level lvl stay alive.
C20_BornDeadHasFreshHandle ==
  [][/\ (/\ outcome'.op = "makeTensorWrapperPtr"
         /\ ~outcome'.flag
         /\ outcome'.status = "ok")
        => LET n == outcome'.result
               h == tensors'[n].is_alive_
           IN /\ n \notin Ids(tensors)
              /\ h \notin 1..Len(handles)
              /\ h \in 1..Len(handles')
              /\ ~handles'[h]
              /\ tensors'[n].level_ = outcome'.level
              /\ \A l \in 1..Len(layerStack') : layerStack'[l] # h
              /\ \A g \in 1..Len(handles) : handles'[g] = handles[g]
              /\ \A p \in Wrappers :
                   /\ tensors'[p] = tensors[p]
                   /\ tensors'[p].is_alive_ # h
                   /\ handles'[tensors'[p].is_alive_] = handles[tensors[p].is_alive_]
     /\ \A p \in Wrappers :
          (madeBy[p] = "makeTensorWrapperPtr" /\ ~handles[tensors[p].is_alive_])
            => ~handles'[tensors'[p].is_alive_]]_vars

\* C20 witness: a wrapper has been built dead at a level whose scope is
\* active, and a wrapper of that scope at the same level is still alive.
C20_Witness ==
  /\ outcome.op = "makeTensorWrapperPtr"
  /\ outcome.status = "ok"
  /\ ~outcome.flag
  /\ ~is_alive(tensors, outcome.result)
  /\ outcome.level <= Len(layerStack)
  /\ \E p \in Wrappers :
       /\ tensors[p].level_ = outcome.level
       /\ is_alive(tensors, p)
       /\ tensors[p].is_alive_ # tensors[outcome.result].is_alive_

====
